---- MODULE Spec2Model ----
(***************************************************************************)
(* A model of python/ikrig.py: the ikrig_encode and ikrig_decode nodes,    *)
(* the chain encoder FK2encoded and the chain decoder encoded2IK.          *)
(*                                                                         *)
(* Numbers are exact rationals <<n, d>> (d > 0, lowest terms).  The poses  *)
(* the model feeds the nodes are chosen so that every square root the code *)
(* takes (normal(), homogenize(), quaternion extraction) is rational; a    *)
(* square root that is not makes TLC stop with an error instead of         *)
(* returning a wrong value.                                                *)
(***************************************************************************)
EXTENDS Integers, Sequences, FiniteSets, TLC

(***************************************************************************)
(* Exact rational arithmetic (the float/double values of the program).     *)
(***************************************************************************)
Abs(n) == IF n < 0 THEN -n ELSE n

RECURSIVE GCD(_, _)
GCD(a, b) == IF b = 0 THEN a ELSE GCD(b, a % b)

\* the one element of a one-element set: Only({F(x) : x \in {e}}) is F(e)
\* with e computed once
Only(S) == CHOOSE x \in S : TRUE

\* n / d in lowest terms, for d > 0
Rat(n, d) == <<n \div GCD(Abs(n), d), d \div GCD(Abs(n), d)>>

R(n) == <<n, 1>>

Zero == R(0)

One == R(1)

Two == R(2)

RAdd(a, b) ==
    Only({ Rat(a[1] * (b[2] \div g) + b[1] * (a[2] \div g), (a[2] \div g) * b[2]) :
           g \in {GCD(a[2], b[2])} })

RNeg(a) == <<-a[1], a[2]>>

RSub(a, b) == RAdd(a, RNeg(b))

RMul(a, b) ==
    IF a[2] # 0 /\ b[2] # 0 /\ (a[1] = 0 \/ b[1] = 0) THEN Zero
    ELSE Only({ <<(a[1] \div g[1]) * (b[1] \div g[2]), (a[2] \div g[2]) * (b[2] \div g[1])>> :
                g \in {<<GCD(Abs(a[1]), b[2]), GCD(Abs(b[1]), a[2])>>} })

RInv(a) == IF a[1] < 0 THEN <<-a[2], -a[1]>> ELSE <<a[2], a[1]>>

RDiv(a, b) == RMul(a, RInv(b))

RLess(a, b) == a[1] * b[2] < b[1] * a[2]

RECURSIVE RSum(_)
RSum(s) == IF s = <<>> THEN Zero ELSE RAdd(Head(s), RSum(Tail(s)))

RECURSIVE ISqrtFloor(_)
ISqrtFloor(n) ==
    IF n < 2 THEN n
    ELSE Only({ IF (s + 1) * (s + 1) <= n THEN s + 1 ELSE s :
                s \in {2 * ISqrtFloor(n \div 4)} })

\* the exact square root; no value when n is not a perfect square
ISqrt(n) == CHOOSE r \in {ISqrtFloor(n)} : r * r = n

RSqrt(a) == <<ISqrt(a[1]), ISqrt(a[2])>>

\* a float that is not a number
NaN == <<0, 0>>

(***************************************************************************)
(* om.MVector: <<x, y, z>>; Python's v[i] is v[i + 1] here.                *)
(***************************************************************************)
Vec(x, y, z) == <<R(x), R(y), R(z)>>

ZeroVec == Vec(0, 0, 0)

VSub(a, b) == [i \in 1..3 |-> RSub(a[i], b[i])]

VNeg(a) == [i \in 1..3 |-> RNeg(a[i])]

VScale(v, s) == [i \in 1..3 |-> RMul(v[i], s)]

VDivS(v, s) == [i \in 1..3 |-> RDiv(v[i], s)]

Dot(a, b) == RSum([i \in 1..3 |-> RMul(a[i], b[i])])

\* MVector ^ MVector, the cross product
Cross(a, b) ==
    [i \in 1..3 |->
        RSub(RMul(a[(i % 3) + 1], b[((i + 1) % 3) + 1]),
             RMul(a[((i + 1) % 3) + 1], b[(i % 3) + 1]))]

\* what normal() of a zero-length vector may hand back: the vector
\* unchanged, or not-a-number components
UndefinedNormal == {ZeroVec, <<NaN, NaN, NaN>>}

\* MVector.normal(); undef is the outcome for a zero-length vector
Normal(v, undef) == IF v = ZeroVec THEN undef ELSE VDivS(v, RSqrt(Dot(v, v)))

(***************************************************************************)
(* om.MMatrix: 16 numbers, row-major; Python's mat[i] is El(mat, i).       *)
(* Transform matrices are affine: column 3 is (0, 0, 0, 1).                *)
(***************************************************************************)
El(m, i) == m[i + 1]

At(m, r, c) == m[4 * r + c + 1]

Row3(m, r) == [j \in 1..3 |-> At(m, r, j - 1)]

Col3(m, c) == [i \in 1..3 |-> At(m, i - 1, c)]

\* MMatrix([[...], [...], [...], [...]]) from three axis rows and a translation
MatOfRows(x, y, z, t) ==
    [k \in 1..16 |->
        IF k % 4 = 0 THEN (IF k = 16 THEN One ELSE Zero)
        ELSE <<x, y, z, t>>[((k - 1) \div 4) + 1][k % 4]]

Identity == MatOfRows(Vec(1, 0, 0), Vec(0, 1, 0), Vec(0, 0, 1), ZeroVec)

\* MVector * MMatrix: the row vector times the upper-left 3x3 block
VecMulMat(v, m) == [j \in 1..3 |-> Dot(v, Col3(m, j - 1))]

\* MMatrix * MMatrix
MatMul(a, b) ==
    [k \in 1..16 |->
        RSum([i \in 1..4 |-> RMul(At(a, (k - 1) \div 4, i - 1), At(b, i - 1, (k - 1) % 4))])]

\* the determinant of the 3x3 block
Det3(m) == Dot(Row3(m, 0), Cross(Row3(m, 1), Row3(m, 2)))

\* MMatrix.inverse() of an invertible affine matrix: the inverse of the 3x3
\* block (its columns are the cross products of the rows, over the
\* determinant), and the translation -t * inverse
Inverse(m) ==
    Only({ Only({ MatOfRows(Row3(l, 0), Row3(l, 1), Row3(l, 2),
                            VNeg(VecMulMat(Row3(m, 3), l))) :
                  l \in {[k \in 1..16 |->
                            IF k % 4 = 0 \/ k > 12 THEN Zero
                            ELSE RDiv(Cross(Row3(m, (k % 4) % 3),
                                            Row3(m, ((k % 4) + 1) % 3))[((k - 1) \div 4) + 1],
                                      det)]} }) :
           det \in {Det3(m)} })

\* MMatrix.homogenize(), a host library call whose code is not in the
\* repository: modelled as spec.md (section 3, Glossary) describes it, the
\* 3x3 block with each axis brought to unit length (the scale removed), the
\* translation untouched
Homogenize(m) ==
    MatOfRows(Normal(Row3(m, 0), ZeroVec), Normal(Row3(m, 1), ZeroVec),
              Normal(Row3(m, 2), ZeroVec), Row3(m, 3))

\* MMatrix(m) with m[12], m[13], m[14] = t
SetTrans(m, t) == [k \in 1..16 |-> IF k \in 13..15 THEN t[k - 12] ELSE m[k]]

MMat2Trans(mat) == <<El(mat, 12), El(mat, 13), El(mat, 14)>>

(***************************************************************************)
(* om.MQuaternion: <<x, y, z, w>>; Python's q[i] is q[i + 1] here.         *)
(***************************************************************************)
\* MQuaternion.asMatrix(): the rotation matrix (row vectors), no translation.
\* Entry (r, c): 1 - 2(a^2 + b^2) on the diagonal, a, b the other two
\* components; off it 2(q_r q_c + w q_k) with k the third axis, the sign of
\* w q_k plus when c follows r cyclically
QuatAsMatrix(q) ==
    [k \in 1..16 |->
        IF k % 4 = 0 \/ k > 12 THEN (IF k = 16 THEN One ELSE Zero)
        ELSE Only({ IF rc[1] = rc[2]
                    THEN RSub(One, RMul(Two, RSub(Dot(q, q), RMul(q[rc[1]], q[rc[1]]))))
                    ELSE RMul(Two, RAdd(RMul(q[rc[1]], q[rc[2]]),
                                        RMul(IF rc[2] = (rc[1] % 3) + 1 THEN q[4] ELSE RNeg(q[4]),
                                             q[6 - rc[1] - rc[2]]))) :
                    rc \in {<<((k - 1) \div 4) + 1, k % 4>>} })]

\* the unit quaternion whose largest component is the one of axis i (0..2):
\* s = 4 q_i; q_j = (m_ij + m_ji) / s; w = (m_jk - m_kj) / s, j, k following
\* i cyclically
QuatBranch(m, i) ==
    Only({ [n \in 1..4 |->
              IF n = 4 THEN RDiv(RSub(At(m, (i + 1) % 3, (i + 2) % 3),
                                      At(m, (i + 2) % 3, (i + 1) % 3)), s)
              ELSE IF n = i + 1 THEN RDiv(s, R(4))
              ELSE RDiv(RAdd(At(m, i, n - 1), At(m, n - 1, i)), s)] :
           s \in {RMul(Two, RSqrt(RSub(RAdd(One, RMul(Two, At(m, i, i))),
                                       Dot(<<At(m, 0, 0), At(m, 1, 1), At(m, 2, 2)>>,
                                           Vec(1, 1, 1)))))} })

\* MQuaternion.setValue(MMatrix): the unit quaternion of a rotation matrix,
\* taken from the largest of the trace and the diagonal entries
QuatFromMat(m) ==
    Only({ IF RLess(Zero, RSum(d))
           THEN Only({ [n \in 1..4 |->
                          IF n = 4 THEN RDiv(s, R(4))
                          ELSE RDiv(RSub(At(m, n % 3, (n + 1) % 3),
                                         At(m, (n + 1) % 3, n % 3)), s)] :
                       s \in {RMul(Two, RSqrt(RAdd(One, RSum(d))))} })
           ELSE IF RLess(d[2], d[1]) /\ RLess(d[3], d[1]) THEN QuatBranch(m, 0)
           ELSE IF RLess(d[3], d[2]) THEN QuatBranch(m, 1)
           ELSE QuatBranch(m, 2) :
           d \in {<<At(m, 0, 0), At(m, 1, 1), At(m, 2, 2)>>} })

\* FK2encoded with the effector localized by g_mat.inverse(), scale kept
FK2encoded_eff_scaled(g_mat, root_jnt, dir_jnt, eff_jnt, chain_length, undef) ==
    Only({ <<MMat2Trans(MatMul(root_jnt, g_inv)),
             VDivS(VecMulMat(VSub(MMat2Trans(eff_jnt), MMat2Trans(root_jnt)), g_inv),
                   chain_length),
             Normal(VecMulMat(Cross(Cross(VSub(MMat2Trans(root_jnt), MMat2Trans(dir_jnt)),
                                          VSub(MMat2Trans(eff_jnt), MMat2Trans(root_jnt))),
                                    VSub(MMat2Trans(eff_jnt), MMat2Trans(root_jnt))),
                              g_inv), undef),
             QuatFromMat(Homogenize(MatMul(eff_jnt, g_inv)))>> :
           g_inv \in {Inverse(g_mat)} })

(***************************************************************************)
(* FK2encoded: the chain encoder.  undef is what normal() hands back for a *)
(* zero-length pole vector.  Returns <<ik_root, ik_eff, ik_upv, ik_eff_rot>>.*)
(***************************************************************************)
FK2encoded(g_mat, root_jnt, dir_jnt, eff_jnt, chain_length, undef) ==
    LET g_inv      == Inverse(g_mat)
        l_root_jnt == MatMul(root_jnt, g_inv)
        ik_root    == MMat2Trans(l_root_jnt)
        vec_root   == MMat2Trans(root_jnt)
        vec_eff    == MMat2Trans(eff_jnt)
        l_vec_eff  == VSub(vec_eff, vec_root)
        ik_eff     == VDivS(VecMulMat(l_vec_eff, Inverse(Homogenize(g_mat))), chain_length)
        vec_dir    == MMat2Trans(dir_jnt)
        l_vec_dir  == VSub(vec_root, vec_dir)
        upv0       == Cross(Cross(l_vec_dir, l_vec_eff), l_vec_eff)
        ik_upv     == Normal(VecMulMat(upv0, g_inv), undef)
        mat        == MatMul(eff_jnt, g_inv)
        ik_eff_rot == QuatFromMat(Homogenize(mat))
    IN  <<ik_root, ik_eff, ik_upv, ik_eff_rot>>

(***************************************************************************)
(* ikrig_encode.compute                                                    *)
(***************************************************************************)
\* GlobalFrame with the translation's Y read from the hips matrix
GlobalFrame_hips_y(mat_hips_rest, mat_hips, height_hips, undef) ==
    Only({ MatOfRows(VScale(Cross(Vec(0, 1, 0), zaxis), height_hips),
                     VScale(Vec(0, 1, 0), height_hips), VScale(zaxis, height_hips),
                     MMat2Trans(mat_hips)) :
           zaxis \in {Normal(Only({ <<d[1], Zero, d[3]>> :
                                    d \in {VecMulMat(Vec(0, 0, 1),
                                                     MatMul(Inverse(mat_hips_rest),
                                                            mat_hips))} }), undef)} })

\* the global frame g_mat: default hips height and 2d orientation
GlobalFrame(mat_hips_rest, mat_hips, height_hips, undef) ==
    LET mat_hips_delta == MatMul(Inverse(mat_hips_rest), mat_hips)
        direction0     == VecMulMat(Vec(0, 0, 1), mat_hips_delta)
        direction      == <<direction0[1], Zero, direction0[3]>>
        zaxis          == Normal(direction, undef)
        yaxis          == Vec(0, 1, 0)
        xaxis          == Cross(yaxis, Normal(zaxis, undef))
        g_tr_x         == El(mat_hips, 12)
        g_tr_y         == height_hips
        g_tr_z         == El(mat_hips, 14)
    IN  MatOfRows(VScale(xaxis, height_hips), VScale(yaxis, height_hips),
                  VScale(zaxis, height_hips), <<g_tr_x, g_tr_y, g_tr_z>>)

\* EncodeLocals with the neck chain encoded against g_mat
EncodeLocals_neck_global(in, undef) ==
    LET g_mat == GlobalFrame(in.mat_hips_rest, in.mat_hips, in.height_hips, undef)
        lower_body_mat == SetTrans(g_mat, MMat2Trans(in.mat_hips))
        upper_body_mat == SetTrans(g_mat, MMat2Trans(in.mat_neck))
    IN  [g_tr   |-> <<El(in.mat_hips, 12), El(in.mat_hips, 14)>>,
         g_mat  |-> g_mat,
         g_ori  |-> QuatFromMat(Homogenize(g_mat)),
         spine  |-> FK2encoded(g_mat, in.mat_hips, in.mat_spine, in.mat_neck,
                               in.length_spine, undef),
         leg_L  |-> FK2encoded(lower_body_mat, in.mat_leg_L, in.mat_shin_L, in.mat_foot_L,
                               in.length_leg_L, undef),
         leg_R  |-> FK2encoded(lower_body_mat, in.mat_leg_R, in.mat_shin_R, in.mat_foot_R,
                               in.length_leg_R, undef),
         arm_L  |-> FK2encoded(upper_body_mat, in.mat_shoulder_L, in.mat_elbow_L,
                               in.mat_hand_L, in.length_arm_L, undef),
         arm_R  |-> FK2encoded(upper_body_mat, in.mat_shoulder_R, in.mat_elbow_R,
                               in.mat_hand_R, in.length_arm_R, undef),
         neck   |-> FK2encoded(g_mat, in.mat_neck, in.mat_neck_mid, in.mat_head,
                               in.length_neck, undef)]

\* the values compute holds before packing them
EncodeLocals(in, undef) ==
    LET g_mat == GlobalFrame(in.mat_hips_rest, in.mat_hips, in.height_hips, undef)
        lower_body_mat == SetTrans(g_mat, MMat2Trans(in.mat_hips))
        upper_body_mat == SetTrans(g_mat, MMat2Trans(in.mat_neck))
    IN  [g_tr   |-> <<El(in.mat_hips, 12), El(in.mat_hips, 14)>>,
         g_mat  |-> g_mat,
         g_ori  |-> QuatFromMat(Homogenize(g_mat)),
         spine  |-> FK2encoded(g_mat, in.mat_hips, in.mat_spine, in.mat_neck,
                               in.length_spine, undef),
         leg_L  |-> FK2encoded(lower_body_mat, in.mat_leg_L, in.mat_shin_L, in.mat_foot_L,
                               in.length_leg_L, undef),
         leg_R  |-> FK2encoded(lower_body_mat, in.mat_leg_R, in.mat_shin_R, in.mat_foot_R,
                               in.length_leg_R, undef),
         arm_L  |-> FK2encoded(upper_body_mat, in.mat_shoulder_L, in.mat_elbow_L,
                               in.mat_hand_L, in.length_arm_L, undef),
         arm_R  |-> FK2encoded(upper_body_mat, in.mat_shoulder_R, in.mat_elbow_R,
                               in.mat_hand_R, in.length_arm_R, undef),
         neck   |-> FK2encoded(upper_body_mat, in.mat_neck, in.mat_neck_mid, in.mat_head,
                               in.length_neck, undef)]

\* out_components without the (g_tr_x, g_tr_z) pair
out_components_no_g_tr(loc) ==
    <<loc.g_ori,
      loc.spine[1], loc.spine[2], loc.spine[3], loc.spine[4],
      loc.neck[1], loc.neck[2], loc.neck[3], loc.neck[4],
      loc.leg_L[1], loc.leg_L[2], loc.leg_L[3], loc.leg_L[4],
      loc.leg_R[1], loc.leg_R[2], loc.leg_R[3], loc.leg_R[4],
      loc.arm_L[1], loc.arm_L[2], loc.arm_L[3], loc.arm_L[4],
      loc.arm_R[1], loc.arm_R[2], loc.arm_R[3], loc.arm_R[4]>>

out_components(loc) ==
    <<loc.g_tr, loc.g_ori,
      loc.spine[1], loc.spine[2], loc.spine[3], loc.spine[4],
      loc.neck[1], loc.neck[2], loc.neck[3], loc.neck[4],
      loc.leg_L[1], loc.leg_L[2], loc.leg_L[3], loc.leg_L[4],
      loc.leg_R[1], loc.leg_R[2], loc.leg_R[3], loc.leg_R[4],
      loc.arm_L[1], loc.arm_L[2], loc.arm_L[3], loc.arm_L[4],
      loc.arm_R[1], loc.arm_R[2], loc.arm_R[3], loc.arm_R[4]>>

\* for component in out_components: for i in range(len(component)): append
RECURSIVE Flatten(_)
Flatten(components) ==
    IF components = <<>> THEN <<>> ELSE Head(components) \o Flatten(Tail(components))

PackPose(loc) == Flatten(out_components(loc))

(***************************************************************************)
(* om.MEulerRotation (order XYZ): three angles, each held as <<sin, cos>>, *)
(* which fixes the angle within one turn.                                  *)
(***************************************************************************)
Angle(sin, cos) == <<sin, cos>>

\* MQuaternion.asEulerRotation(): the XYZ angles of the quaternion's matrix
\* m = Rx * Ry * Rz, with cos(y) >= 0; at cos(y) = 0 the z angle is 0
asEulerRotation(quat) ==
    LET m  == QuatAsMatrix(quat)
        sy == RNeg(At(m, 0, 2))
        cy == RSqrt(RAdd(RMul(At(m, 0, 0), At(m, 0, 0)), RMul(At(m, 0, 1), At(m, 0, 1))))
    IN  IF cy = Zero
        THEN <<Angle(RNeg(At(m, 2, 1)), At(m, 1, 1)), Angle(sy, cy), Angle(Zero, One)>>
        ELSE <<Angle(RDiv(At(m, 1, 2), cy), RDiv(At(m, 2, 2), cy)), Angle(sy, cy),
               Angle(RDiv(At(m, 0, 1), cy), RDiv(At(m, 0, 0), cy))>>

(***************************************************************************)
(* Python sequences: a[i] and a[lo:hi] of a 0-indexed array.               *)
(***************************************************************************)
InRange(a, i) == 0 <= i /\ i < Len(a)

Slice(a, lo, hi) ==
    LET top == IF hi < Len(a) THEN hi ELSE Len(a)
    IN  IF top <= lo THEN <<>> ELSE [i \in 1..(top - lo) |-> a[lo + i]]

IndexError == "IndexError"

\* encoded2IK reading the effector before the root
encoded2IK_eff_first(encoded_pose_array, char_scale, chain_scale) ==
    IF \E i \in 0..12 : ~InRange(encoded_pose_array, i)
    THEN IndexError
    ELSE <<VScale(Slice(encoded_pose_array, 3, 6), char_scale),
           VScale(Slice(encoded_pose_array, 0, 3), chain_scale),
           Slice(encoded_pose_array, 6, 9),
           asEulerRotation(Slice(encoded_pose_array, 9, 13))>>

\* encoded2IK building the quaternion as (w, x, y, z)
encoded2IK_quat_w_first(encoded_pose_array, char_scale, chain_scale) ==
    IF \E i \in 0..12 : ~InRange(encoded_pose_array, i)
    THEN IndexError
    ELSE <<VScale(Slice(encoded_pose_array, 0, 3), char_scale),
           VScale(Slice(encoded_pose_array, 3, 6), chain_scale),
           Slice(encoded_pose_array, 6, 9),
           asEulerRotation(<<El(encoded_pose_array, 10), El(encoded_pose_array, 11),
                             El(encoded_pose_array, 12), El(encoded_pose_array, 9)>>)>>

(***************************************************************************)
(* encoded2IK: the chain decoder.  Returns <<ik_chain_root, ik_chain_eff,  *)
(* ik_chain_upv, ik_chain_eff_rot>>, or raises IndexError at the first     *)
(* index past the end of the array.                                        *)
(***************************************************************************)
encoded2IK(encoded_pose_array, char_scale, chain_scale) ==
    IF \E i \in 0..12 : ~InRange(encoded_pose_array, i)
    THEN IndexError
    ELSE LET a == encoded_pose_array
             ik_chain_root == <<RMul(El(a, 0), char_scale), RMul(El(a, 1), char_scale),
                                RMul(El(a, 2), char_scale)>>
             ik_chain_eff  == <<RMul(El(a, 3), chain_scale), RMul(El(a, 4), chain_scale),
                                RMul(El(a, 5), chain_scale)>>
             ik_chain_upv  == <<El(a, 6), El(a, 7), El(a, 8)>>
             quat          == <<El(a, 9), El(a, 10), El(a, 11), El(a, 12)>>
         IN  <<ik_chain_root, ik_chain_eff, ik_chain_upv, asEulerRotation(quat)>>

(***************************************************************************)
(* ikrig_decode.compute                                                    *)
(***************************************************************************)
\* DecodeGlobal with the offset matrix applied first
DecodeGlobal_offset_first(encoded_pose_array, offset_mat) ==
    MatMul(offset_mat,
           SetTrans(QuatAsMatrix(Slice(encoded_pose_array, 2, 6)),
                    <<El(encoded_pose_array, 0), Zero, El(encoded_pose_array, 1)>>))

\* the global character transform, from encoded_pose_array[0..5]
DecodeGlobal(encoded_pose_array, offset_mat) ==
    LET a      == encoded_pose_array
        g_tr_x == El(a, 0)
        g_tr_y == Zero
        g_tr_z == El(a, 1)
        g_ori  == <<El(a, 2), El(a, 3), El(a, 4), El(a, 5)>>
        g_mat  == SetTrans(QuatAsMatrix(g_ori), <<g_tr_x, g_tr_y, g_tr_z>>)
    IN  MatMul(g_mat, offset_mat)

\* SpineRoot raising every component of the root
SpineRoot_every_axis(chain, height_hips) ==
    IF chain = IndexError THEN chain
    ELSE <<[i \in 1..3 |-> RAdd(chain[1][i], height_hips)], chain[2], chain[3], chain[4]>>

\* ik_spine_root.y += height_hips
SpineRoot(chain, height_hips) ==
    IF chain = IndexError THEN chain
    ELSE <<<<chain[1][1], RAdd(chain[1][2], height_hips), chain[1][3]>>,
           chain[2], chain[3], chain[4]>>

\* ChainWindow with the two leg windows exchanged
ChainWindow_legs_swapped(a, c) ==
    CASE c = "spine" -> Slice(a, 6, 19)
      [] c = "neck"  -> Slice(a, 19, 32)
      [] c = "leg_L" -> Slice(a, 45, 58)
      [] c = "leg_R" -> Slice(a, 32, 45)
      [] c = "arm_L" -> Slice(a, 58, 71)
      [] c = "arm_R" -> Slice(a, 71, 84)

\* the window of the array each chain is decoded from
ChainWindow(a, c) ==
    CASE c = "spine" -> Slice(a, 6, 19)
      [] c = "neck"  -> Slice(a, 19, 32)
      [] c = "leg_L" -> Slice(a, 32, 45)
      [] c = "leg_R" -> Slice(a, 45, 58)
      [] c = "arm_L" -> Slice(a, 58, 71)
      [] c = "arm_R" -> Slice(a, 71, 84)

\* the six chains, each decoded with the hips height and its own length
DecodeChains(in) ==
    [spine |-> SpineRoot(encoded2IK(ChainWindow(in.encoded_pose, "spine"), in.height_hips,
                                    in.length_spine), in.height_hips),
     neck  |-> encoded2IK(ChainWindow(in.encoded_pose, "neck"), in.height_hips,
                          in.length_neck),
     leg_L |-> encoded2IK(ChainWindow(in.encoded_pose, "leg_L"), in.height_hips,
                          in.length_leg_L),
     leg_R |-> encoded2IK(ChainWindow(in.encoded_pose, "leg_R"), in.height_hips,
                          in.length_leg_R),
     arm_L |-> encoded2IK(ChainWindow(in.encoded_pose, "arm_L"), in.height_hips,
                          in.length_arm_L),
     arm_R |-> encoded2IK(ChainWindow(in.encoded_pose, "arm_R"), in.height_hips,
                          in.length_arm_R)]

Chains == {"spine", "neck", "leg_L", "leg_R", "arm_L", "arm_R"}

\* the set3Float / set3Double calls: every chain's four output slots
ChainOutputs(ik) ==
    [ik_Spine_root    |-> ik.spine[1], ik_Spine_eff   |-> ik.spine[2],
     ik_Spine_dir     |-> ik.spine[3], ik_Spine_eff_rot |-> ik.spine[4],
     ik_Neck_root     |-> ik.neck[1],  ik_Neck_eff    |-> ik.neck[2],
     ik_Neck_dir      |-> ik.neck[3],  ik_Neck_eff_rot |-> ik.neck[4],
     ik_Leg_root_L    |-> ik.leg_L[1], ik_Leg_eff_L   |-> ik.leg_L[2],
     ik_Leg_dir_L     |-> ik.leg_L[3], ik_Leg_eff_rot_L |-> ik.leg_L[4],
     ik_Leg_root_R    |-> ik.leg_R[1], ik_Leg_eff_R   |-> ik.leg_R[2],
     ik_Leg_dir_R     |-> ik.leg_R[3], ik_Leg_eff_rot_R |-> ik.leg_R[4],
     ik_Arm_root_L    |-> ik.arm_L[1], ik_Arm_eff_L   |-> ik.arm_L[2],
     ik_Arm_dir_L     |-> ik.arm_L[3], ik_Arm_eff_rot_L |-> ik.arm_L[4],
     ik_Arm_root_R    |-> ik.arm_R[1], ik_Arm_eff_R   |-> ik.arm_R[2],
     ik_Arm_dir_R     |-> ik.arm_R[3], ik_Arm_eff_rot_R |-> ik.arm_R[4]]

\* the decode node's outputs after compute ran on inputs in, starting from
\* outputs out: <<outputs, exception raised or "none">>
DecodeOutcome(in, out) ==
    IF \E i \in 0..5 : ~InRange(in.encoded_pose, i)
    THEN <<out, IndexError>>
    ELSE LET g_mat == DecodeGlobal(in.encoded_pose, in.offset_mat)
             ik    == DecodeChains(in)
             out1  == [out EXCEPT !.global_mat = g_mat]
         IN  IF \E c \in Chains : ik[c] = IndexError
             THEN <<out1, IndexError>>
             ELSE <<[global_mat |-> g_mat] @@ ChainOutputs(ik), "none">>

(***************************************************************************)
(* The skeletons the host feeds the encode node.                           *)
(***************************************************************************)
Q(x, y, z, w, d) == <<Rat(x, d), Rat(y, d), Rat(z, d), Rat(w, d)>>

QId == Q(0, 0, 0, 1, 1)

QX180 == Q(1, 0, 0, 0, 1)

QY180 == Q(0, 1, 0, 0, 1)

QYaw == Q(0, 3, 0, 4, 5)

QDiag == Q(1, 1, 1, 1, 2)

QPitch == Q(3, 0, 0, 4, 5)

\* a joint's world matrix: rotation q, translation t
Joint(q, t) == SetTrans(QuatAsMatrix(q), t)

\* how the character stands in the world: a rotation and a translation
Worlds ==
    {Joint(QId, Vec(0, 0, 0)), Joint(QYaw, Vec(3, 0, -2)), Joint(QY180, Vec(-1, 1, 5))}

\* "bent": every chain bent.  "straight": the left leg is root (0,0,0),
\* dir (0,0,1), effector (0,0,2), collinear, and the rest pose faces
\* backwards.  "folded": the right arm's elbow is on its shoulder, and the
\* hips are pitched forward
Variants == {"bent", "straight", "folded"}

Skeleton(variant, world) ==
    LET J(q, x, y, z) == MatMul(Joint(q, Vec(x, y, z)), world)
        straight == variant = "straight"
        folded == variant = "folded"
    IN  [mat_hips_rest  |-> Joint(IF straight THEN QY180 ELSE QId, Vec(0, 4, 0)),
         mat_hips       |-> J(IF folded THEN QPitch ELSE QId, 0, 4, 0),
         mat_spine      |-> J(QId, 0, 5, 1),
         mat_neck       |-> J(QX180, 0, 6, 0),
         mat_neck_mid   |-> J(QId, 0, 7, 1),
         mat_head       |-> J(QDiag, 0, 8, 0),
         mat_leg_L      |-> IF straight THEN J(QId, 0, 0, 0) ELSE J(QId, 1, 4, 0),
         mat_shin_L     |-> IF straight THEN J(QId, 0, 0, 1) ELSE J(QId, 1, 2, 1),
         mat_foot_L     |-> IF straight THEN J(QX180, 0, 0, 2) ELSE J(QX180, 1, 0, 0),
         mat_shoulder_L |-> J(QId, 1, 6, 0),
         mat_elbow_L    |-> J(QId, 2, 6, -1),
         mat_hand_L     |-> J(QDiag, 3, 6, 0),
         mat_leg_R      |-> J(QId, -1, 4, 0),
         mat_shin_R     |-> J(QId, -1, 2, 1),
         mat_foot_R     |-> J(QY180, -1, 0, 0),
         mat_shoulder_R |-> J(QId, -1, 6, 0),
         mat_elbow_R    |-> IF folded THEN J(QId, -1, 6, 0) ELSE J(QId, -2, 6, -1),
         mat_hand_R     |-> J(QId, -3, 6, 0)]

(***************************************************************************)
(* The nodes' attribute values.                                            *)
(***************************************************************************)
MaxHeight == 2

Scalars(h, l) ==
    [height_hips  |-> R(h),    length_spine |-> R(l[1]), length_neck  |-> R(l[2]),
     length_leg_L |-> R(l[3]), length_leg_R |-> R(l[4]), length_arm_L |-> R(l[5]),
     length_arm_R |-> R(l[6])]

ScalarNames ==
    {"height_hips", "length_spine", "length_neck", "length_leg_L", "length_leg_R",
     "length_arm_L", "length_arm_R"}

\* the measures of a character: height 1 and every chain of length 1, or a
\* height and a different length for every chain
Measures ==
    {<<1, <<1, 1, 1, 1, 1, 1>>>>} \cup {<<h, <<2, 3, 4, 5, 6, 7>>>> : h \in 1..MaxHeight}

EncodeInputs ==
    {Skeleton(v, w) @@ Scalars(hl[1], hl[2]) :
        v \in Variants, w \in Worlds, hl \in Measures}

\* a second character's measures, for a decoder that retargets
OtherScalars == Scalars(3, <<7, 6, 5, 4, 3, 2>>)

Offsets == {Identity, Joint(QX180, Vec(1, 2, 3))}

ZeroAngles == <<Angle(Zero, One), Angle(Zero, One), Angle(Zero, One)>>

\* the decode node's outputs before any compute: attribute defaults
DefaultOutputs ==
    [global_mat |-> Identity] @@
    ChainOutputs([c \in Chains |-> <<ZeroVec, ZeroVec, ZeroVec, ZeroAngles>>])

DefaultDecodeInputs ==
    [encoded_pose |-> <<>>, offset_mat |-> Identity] @@ Scalars(0, <<0, 0, 0, 0, 0, 0>>)

\* lengths of the arrays a host may hand the decoder instead of a pose
MaxExtra == 1

ShortLengths == {0, 6, 83}

VARIABLES
    enc_in,      \* the encode node's inputs
    enc_dirty,   \* the encode node's result is marked dirty
    enc_loc,     \* the values the last encode compute held before packing
    result,      \* the encode node's output array
    dec_in,      \* the decode node's inputs
    dec_pc,      \* "new": nothing connected; "dirty"; "clean": compute has run
    dec_out,     \* the decode node's output slots
    dec_error,   \* what the last decode compute raised
    host_normal, \* what the host's normal() returns for a zero-length vector
    frame        \* how many times the host has changed the encoder's inputs

vars ==
    <<enc_in, enc_dirty, enc_loc, result, dec_in, dec_pc, dec_out, dec_error, host_normal,
      frame>>

Init ==
    /\ enc_in \in EncodeInputs
    /\ enc_dirty = TRUE
    /\ enc_loc = "none"
    /\ result = <<>>
    /\ dec_in = DefaultDecodeInputs
    /\ dec_pc = "new"
    /\ dec_out = DefaultOutputs
    /\ dec_error = "none"
    /\ host_normal \in UndefinedNormal
    /\ frame = 0

\* ikrig_encode.compute serving the result it packed in an earlier call
EncodeCompute_cached ==
    /\ enc_dirty
    /\ LET loc == IF Len(result) = 0 THEN EncodeLocals(enc_in, host_normal) ELSE enc_loc
       IN  /\ enc_loc' = loc
           /\ result' = PackPose(loc)
    /\ enc_dirty' = FALSE
    /\ UNCHANGED <<enc_in, dec_in, dec_pc, dec_out, dec_error, host_normal, frame>>

\* ikrig_encode.compute: pack the pose, result_handle.setClean()
EncodeCompute ==
    /\ enc_dirty
    /\ LET loc == EncodeLocals(enc_in, host_normal)
       IN  /\ enc_loc' = loc
           /\ result' = PackPose(loc)
    /\ enc_dirty' = FALSE
    /\ UNCHANGED <<enc_in, dec_in, dec_pc, dec_out, dec_error, host_normal, frame>>

\* the host connects the encode node's result to the decode node, with an
\* offset matrix and the measures of the character to drive
SetEncodedPose ==
    /\ ~enc_dirty
    /\ dec_pc = "new"
    /\ \E offset_mat \in Offsets :
       \E sc \in {[n \in ScalarNames |-> enc_in[n]], OtherScalars} :
          dec_in' = [encoded_pose |-> result, offset_mat |-> offset_mat] @@ sc
    /\ dec_pc' = "dirty"
    /\ UNCHANGED <<enc_in, enc_dirty, enc_loc, result, dec_out, dec_error, host_normal, frame>>

\* the host hands the decode node an array that is not a pose: the result
\* cut short, or with values appended
SetMalformedPose ==
    /\ ~enc_dirty
    /\ dec_pc \in {"new", "clean"}
    /\ dec_error = "none"
    /\ \E a \in {Slice(result, 0, n) : n \in ShortLengths}
               \cup {result \o [i \in 1..k |-> R(i)] : k \in 1..MaxExtra} :
          dec_in' = [dec_in EXCEPT !.encoded_pose = a]
    /\ dec_pc' = "dirty"
    /\ UNCHANGED <<enc_in, enc_dirty, enc_loc, result, dec_out, dec_error, host_normal, frame>>

\* ikrig_decode.compute
DecodeCompute ==
    /\ dec_pc = "dirty"
    /\ LET o == DecodeOutcome(dec_in, dec_out)
       IN  /\ dec_out' = o[1]
           /\ dec_error' = o[2]
    /\ dec_pc' = "clean"
    /\ UNCHANGED <<enc_in, enc_dirty, enc_loc, result, dec_in, host_normal, frame>>

Next == EncodeCompute \/ SetEncodedPose \/ SetMalformedPose \/ DecodeCompute

Spec == Init /\ [][Next]_vars

(***************************************************************************)
(* Properties.                                                             *)
(***************************************************************************)
\* the encode node has computed: result holds the packed pose
Encoded == ~enc_dirty

\* the decode node has computed without raising
Decoded == dec_pc = "clean" /\ dec_error = "none"

\* the decode node has decoded the encode node's pose
DecodedResult == Decoded /\ Len(result) = 84 /\ SubSeq(dec_in.encoded_pose, 1, 84) = result

\* the 13 values the encoder holds for chain c: root, effector, pole
\* vector, effector quaternion
EncBlock(loc, c) == loc[c][1] \o loc[c][2] \o loc[c][3] \o loc[c][4]

\* the four output slots of chain c: <<root, eff, dir, eff_rot>>
OutputsOf(out, c) ==
    CASE c = "spine" -> <<out.ik_Spine_root, out.ik_Spine_eff, out.ik_Spine_dir,
                          out.ik_Spine_eff_rot>>
      [] c = "neck"  -> <<out.ik_Neck_root, out.ik_Neck_eff, out.ik_Neck_dir,
                          out.ik_Neck_eff_rot>>
      [] c = "leg_L" -> <<out.ik_Leg_root_L, out.ik_Leg_eff_L, out.ik_Leg_dir_L,
                          out.ik_Leg_eff_rot_L>>
      [] c = "leg_R" -> <<out.ik_Leg_root_R, out.ik_Leg_eff_R, out.ik_Leg_dir_R,
                          out.ik_Leg_eff_rot_R>>
      [] c = "arm_L" -> <<out.ik_Arm_root_L, out.ik_Arm_eff_L, out.ik_Arm_dir_L,
                          out.ik_Arm_eff_rot_L>>
      [] c = "arm_R" -> <<out.ik_Arm_root_R, out.ik_Arm_eff_R, out.ik_Arm_dir_R,
                          out.ik_Arm_eff_rot_R>>

\* the length scalar of chain c among the scalars sc
LengthOf(sc, c) ==
    CASE c = "spine" -> sc.length_spine
      [] c = "neck"  -> sc.length_neck
      [] c = "leg_L" -> sc.length_leg_L
      [] c = "leg_R" -> sc.length_leg_R
      [] c = "arm_L" -> sc.length_arm_L
      [] c = "arm_R" -> sc.length_arm_R

\* (0, h, 0) for the spine, whose decoded root is raised by the hips height
RootOffset(c, h) == IF c = "spine" THEN <<Zero, h, Zero>> ELSE ZeroVec

VAdd(a, b) == [i \in 1..3 |-> RAdd(a[i], b[i])]

\* C1: the array the encode node writes has exactly 84 values: the 2
\* global translation values, the 4 of the global quaternion, and for each
\* of the 6 chains 3 + 3 + 3 + 4 = 13.
C1_PoseLength ==
    Encoded =>
        /\ Len(result) = 84
        /\ Len(enc_loc.g_tr) = 2
        /\ Len(enc_loc.g_ori) = 4
        /\ \A c \in Chains :
              /\ <<Len(enc_loc[c][1]), Len(enc_loc[c][2]), Len(enc_loc[c][3]),
                   Len(enc_loc[c][4])>> = <<3, 3, 3, 4>>
              /\ Len(EncBlock(enc_loc, c)) = 13

C1_Witness == Encoded /\ Len(result) = 84 /\ enc_in.mat_hips # enc_in.mat_hips_rest

\* C2: the encoder and the decoder agree on the layout.  The window the
\* decoder slices for a chain holds the 13 values the encoder packed for that
\* chain, in the order root, effector, pole vector, effector quaternion, and
\* indices 0-1 and 2-5 hold (g_tr_x, g_tr_z) and g_ori; so what the decoder
\* writes for a chain comes from the encoder's values of that chain alone.
C2_WireLayout ==
    /\ Encoded =>
          /\ \A c \in Chains : ChainWindow(result, c) = EncBlock(enc_loc, c)
          /\ Slice(result, 0, 2) = enc_loc.g_tr
          /\ Slice(result, 2, 6) = enc_loc.g_ori
    /\ DecodedResult =>
          /\ \A c \in Chains :
                OutputsOf(dec_out, c) =
                    <<VAdd(VScale(enc_loc[c][1], dec_in.height_hips),
                           RootOffset(c, dec_in.height_hips)),
                      VScale(enc_loc[c][2], LengthOf(dec_in, c)),
                      enc_loc[c][3],
                      asEulerRotation(enc_loc[c][4])>>
          /\ dec_out.global_mat =
                MatMul(SetTrans(QuatAsMatrix(enc_loc.g_ori),
                                <<enc_loc.g_tr[1], Zero, enc_loc.g_tr[2]>>),
                       dec_in.offset_mat)

C2_Witness ==
    /\ DecodedResult
    /\ dec_in.length_leg_L # dec_in.length_leg_R
    /\ EncBlock(enc_loc, "leg_L") # EncBlock(enc_loc, "leg_R")

\* the decode node runs at the scale the claim C3 is about: hips height 1,
\* every chain length 1, at both nodes, and the identity offset matrix
IdentityScale ==
    /\ \A n \in ScalarNames : enc_in[n] = One /\ dec_in[n] = One
    /\ dec_in.offset_mat = Identity

\* C3 as claimed: at identity scale every chain's decoded root, effector and
\* pole vector equal the encoder's ik_root, ik_eff and ik_upv of that chain.
C3_RoundTrip_Claimed ==
    (DecodedResult /\ IdentityScale) =>
        \A c \in Chains :
            /\ OutputsOf(dec_out, c)[1] = enc_loc[c][1]
            /\ OutputsOf(dec_out, c)[2] = enc_loc[c][2]
            /\ OutputsOf(dec_out, c)[3] = enc_loc[c][3]

\* C3 amended: at identity scale every chain's decoded effector and pole
\* vector equal the encoder's ik_eff and ik_upv, and the decoded root equals
\* ik_root for the five chains other than the spine; the spine's decoded
\* root is ik_root with the hips height, 1, added to its Y.
C3_RoundTrip ==
    (DecodedResult /\ IdentityScale) =>
        \A c \in Chains :
            /\ OutputsOf(dec_out, c)[1] =
                  IF c = "spine"
                  THEN <<enc_loc[c][1][1], RAdd(enc_loc[c][1][2], One), enc_loc[c][1][3]>>
                  ELSE enc_loc[c][1]
            /\ OutputsOf(dec_out, c)[2] = enc_loc[c][2]
            /\ OutputsOf(dec_out, c)[3] = enc_loc[c][3]

C3_Witness ==
    /\ DecodedResult
    /\ IdentityScale
    /\ dec_out.ik_Spine_root # enc_loc.spine[1]
    /\ dec_out.ik_Neck_eff = enc_loc.neck[2]

\* C4 as claimed: a decode compute on an array whose length is not 84 fails
\* with MalformedPose and writes no output slot.
C4_MalformedRejected ==
    [][(DecodeCompute /\ Len(dec_in.encoded_pose) # 84) =>
          (dec_error' = "MalformedPose" /\ dec_out' = dec_out)]_vars

\* MEulerRotation.asMatrix() for the order XYZ: Rx * Ry * Rz
EulerAsMatrix(e) ==
    MatMul(MatMul(MatOfRows(Vec(1, 0, 0), <<Zero, e[1][2], e[1][1]>>,
                            <<Zero, RNeg(e[1][1]), e[1][2]>>, ZeroVec),
                  MatOfRows(<<e[2][2], Zero, RNeg(e[2][1])>>, Vec(0, 1, 0),
                            <<e[2][1], Zero, e[2][2]>>, ZeroVec)),
           MatOfRows(<<e[3][2], e[3][1], Zero>>, <<RNeg(e[3][1]), e[3][2], Zero>>,
                     Vec(0, 0, 1), ZeroVec))

MaxScale == 2

\* the decode node is about to run its first compute
FirstDecodePending == dec_pc = "dirty" /\ dec_out = DefaultOutputs

\* the scales the chain decoder is tried with
TestScales == {Zero, R(MaxScale), Rat(1, MaxScale)}

\* C5: for a 13-value window v and scalars char_scale, chain_scale,
\* encoded2IK returns root = v[0..2] * char_scale, eff = v[3..5] *
\* chain_scale and upv = v[6..8] as it is; its Euler angles are those of the
\* quaternion (x, y, z, w) = (v[9], v[10], v[11], v[12]); char_scale does not
\* affect eff or upv, and chain_scale does not affect root or upv.
C5_ChainDecoder ==
    FirstDecodePending =>
        \A c \in Chains :
            LET v == ChainWindow(dec_in.encoded_pose, c)
                r == encoded2IK(v, dec_in.height_hips, LengthOf(dec_in, c))
            IN  Len(v) = 13 =>
                  /\ r[1] = [i \in 1..3 |-> RMul(v[i], dec_in.height_hips)]
                  /\ r[2] = [i \in 1..3 |-> RMul(v[i + 3], LengthOf(dec_in, c))]
                  /\ r[3] = <<v[7], v[8], v[9]>>
                  /\ EulerAsMatrix(r[4]) = QuatAsMatrix(<<v[10], v[11], v[12], v[13]>>)
                  /\ \A k \in TestScales :
                        LET rk == encoded2IK(v, k, LengthOf(dec_in, c))
                            rl == encoded2IK(v, dec_in.height_hips, k)
                        IN  /\ rk[1] = [i \in 1..3 |-> RMul(v[i], k)]
                            /\ rk[2] = r[2] /\ rk[3] = r[3]
                            /\ rl[1] = r[1] /\ rl[3] = r[3]
                            /\ rl[2] = [i \in 1..3 |-> RMul(v[i + 3], k)]

C5_Witness ==
    /\ FirstDecodePending
    /\ Len(ChainWindow(dec_in.encoded_pose, "arm_L")) = 13
    /\ Slice(ChainWindow(dec_in.encoded_pose, "arm_L"), 9, 13) = QDiag
    /\ dec_in.height_hips # dec_in.length_arm_L
    /\ Slice(ChainWindow(dec_in.encoded_pose, "arm_L"), 0, 3) # ZeroVec

MatNames ==
    {"mat_hips_rest", "mat_hips", "mat_spine", "mat_neck", "mat_neck_mid", "mat_head",
     "mat_leg_L", "mat_shin_L", "mat_foot_L", "mat_shoulder_L", "mat_elbow_L",
     "mat_hand_L", "mat_leg_R", "mat_shin_R", "mat_foot_R", "mat_shoulder_R",
     "mat_elbow_R", "mat_hand_R"}

\* the encode inputs with every joint translation and height_hips multiplied
\* by k, the rotations kept; the chain lengths too when lengths is TRUE
ScaledInputs(in, k, lengths) ==
    [n \in DOMAIN in |->
        IF n \in MatNames THEN SetTrans(in[n], VScale(MMat2Trans(in[n]), k))
        ELSE IF n = "height_hips" \/ lengths THEN RMul(in[n], k)
        ELSE in[n]]

\* the factors a character is scaled by
ScaleFactors == {R(MaxScale), Rat(1, MaxScale)}

\* what normal() handed back for a zero-length vector in the last encode
UsedUndef ==
    IF \E c \in Chains : enc_loc[c][3] = <<NaN, NaN, NaN>> THEN <<NaN, NaN, NaN>> ELSE ZeroVec

\* the root, effector and pole-vector fields of every chain of a pose
ChainFields(pose) == [c \in Chains |-> Slice(ChainWindow(pose, c), 0, 9)]

\* the encode node alone has run (the decode node's state does not matter
\* to what the encoder computes)
EncodedOnly == Encoded /\ dec_pc = "new"

\* C6 as claimed: scaling height_hips and every joint translation by k > 0
\* leaves the root, effector and pole-vector fields of all chains unchanged.
C6_ScaleInvariance_Claimed ==
    EncodedOnly =>
        \A k \in ScaleFactors :
            ChainFields(PackPose(EncodeLocals(ScaledInputs(enc_in, k, FALSE), UsedUndef)))
                = ChainFields(result)

\* C6 amended: scaling height_hips, every chain length and every joint
\* translation by k > 0 leaves the root, effector and pole-vector fields of
\* all chains unchanged.
C6_ScaleInvariance ==
    EncodedOnly =>
        \A k \in ScaleFactors :
            ChainFields(PackPose(EncodeLocals(ScaledInputs(enc_in, k, TRUE), UsedUndef)))
                = ChainFields(result)

C6_Witness ==
    /\ EncodedOnly
    /\ enc_in.length_arm_L # One
    /\ MMat2Trans(enc_in.mat_hips) # Vec(0, 4, 0)
    /\ \A c \in Chains : Slice(ChainWindow(result, c), 3, 6) # ZeroVec

\* the root, dir and effector joints of chain c
ChainJoints(in, c) ==
    CASE c = "spine" -> <<in.mat_hips, in.mat_spine, in.mat_neck>>
      [] c = "neck"  -> <<in.mat_neck, in.mat_neck_mid, in.mat_head>>
      [] c = "leg_L" -> <<in.mat_leg_L, in.mat_shin_L, in.mat_foot_L>>
      [] c = "leg_R" -> <<in.mat_leg_R, in.mat_shin_R, in.mat_foot_R>>
      [] c = "arm_L" -> <<in.mat_shoulder_L, in.mat_elbow_L, in.mat_hand_L>>
      [] c = "arm_R" -> <<in.mat_shoulder_R, in.mat_elbow_R, in.mat_hand_R>>

\* (l_vec_dir x l_vec_eff) x l_vec_eff is the zero vector
Degenerate(in, c) ==
    LET j == ChainJoints(in, c)
        l_vec_eff == VSub(MMat2Trans(j[3]), MMat2Trans(j[1]))
        l_vec_dir == VSub(MMat2Trans(j[1]), MMat2Trans(j[2]))
    IN  Cross(Cross(l_vec_dir, l_vec_eff), l_vec_eff) = ZeroVec

IsUnit(v) == (\A i \in 1..3 : v[i] # NaN) /\ Dot(v, v) = One

\* C7 as claimed: for a chain whose root, dir and effector are collinear or
\* coincident the encoder never returns, as a normal result, a pole vector
\* that is NaN or not of unit length.  (FK2encoded has no way to signal: it
\* returns for every input.)
C7_DegenerateGuarded ==
    Encoded => \A c \in Chains : Degenerate(enc_in, c) => IsUnit(enc_loc[c][3])

\* C8: for hips whose forward direction has a horizontal part, g_mat has
\* yaxis (0, h, 0); zaxis of length h, horizontal, along the horizontal part
\* of world +Z transformed by inverse(mat_hips_rest) * mat_hips; xaxis of
\* length h along yaxis x zaxis; translation (mat_hips.tx, h, mat_hips.tz),
\* whatever mat_hips.ty is.  Identity hips with h = 10 give (10,0,0),
\* (0,10,0), (0,0,10) and translation (0,10,0).
C8_FrameBuilder ==
    EncodedOnly =>
      /\ GlobalFrame(Identity, Identity, R(10), ZeroVec)
            = MatOfRows(Vec(10, 0, 0), Vec(0, 10, 0), Vec(0, 0, 10), Vec(0, 10, 0))
      /\
          LET g   == enc_loc.g_mat
              h   == enc_in.height_hips
              fwd == VecMulMat(Vec(0, 0, 1), MatMul(Inverse(enc_in.mat_hips_rest),
                                                   enc_in.mat_hips))
              hor == <<fwd[1], Zero, fwd[3]>>
              x   == Row3(g, 0)
              y   == Row3(g, 1)
              z   == Row3(g, 2)
          IN  hor # ZeroVec =>
                /\ y = <<Zero, h, Zero>>
                /\ Dot(z, z) = RMul(h, h) /\ z[2] = Zero
                /\ Cross(z, hor) = ZeroVec /\ RLess(Zero, Dot(z, hor))
                /\ Dot(x, x) = RMul(h, h)
                /\ Cross(x, Cross(y, z)) = ZeroVec /\ RLess(Zero, Dot(x, Cross(y, z)))
                /\ Row3(g, 3) = <<El(enc_in.mat_hips, 12), h, El(enc_in.mat_hips, 14)>>
                /\ El(g, 15) = One /\ \A i \in {3, 7, 11} : El(g, i) = Zero
                /\ \A ty \in {R(0), R(7)} :
                      GlobalFrame(enc_in.mat_hips_rest,
                                  SetTrans(enc_in.mat_hips,
                                           <<El(enc_in.mat_hips, 12), ty,
                                             El(enc_in.mat_hips, 14)>>),
                                  h, ZeroVec) = g

C8_Witness ==
    /\ EncodedOnly
    /\ enc_in.height_hips # One
    /\ LET fwd == VecMulMat(Vec(0, 0, 1), MatMul(Inverse(enc_in.mat_hips_rest),
                                                enc_in.mat_hips))
       IN  fwd[1] # Zero /\ fwd[2] # Zero /\ fwd[3] # Zero
    /\ El(enc_in.mat_hips, 13) # enc_in.height_hips

\* the pose a with its two leg windows exchanged
LegsExchanged(a) ==
    Slice(a, 0, 32) \o Slice(a, 45, 58) \o Slice(a, 32, 45) \o Slice(a, 58, Len(a))

\* C9: the decoder's global matrix is the rotation matrix of the quaternion
\* pose[2..5], with translation row (pose[0], 0, pose[1]), times offset_mat;
\* with the identity offset its translation is (pose[0], 0, pose[1]); the
\* scalar inputs and the pose values from index 6 on do not affect it.
C9_GlobalHeader ==
    (dec_pc = "clean" /\ Len(dec_in.encoded_pose) >= 6) =>
        LET a == dec_in.encoded_pose
            pre == SetTrans(QuatAsMatrix(<<a[3], a[4], a[5], a[6]>>), <<a[1], Zero, a[2]>>)
        IN  /\ dec_out.global_mat = MatMul(pre, dec_in.offset_mat)
            /\ dec_in.offset_mat = Identity =>
                  MMat2Trans(dec_out.global_mat) = <<a[1], Zero, a[2]>>
            /\ DecodeOutcome(Scalars(1, <<1, 2, 3, 1, 2, 3>>) @@ dec_in,
                              DefaultOutputs)[1].global_mat = dec_out.global_mat
            /\ \A b \in {Slice(a, 0, 6), LegsExchanged(a)} :
                  DecodeOutcome([dec_in EXCEPT !.encoded_pose = b],
                                DefaultOutputs)[1].global_mat = dec_out.global_mat

C9_Witness ==
    /\ Decoded
    /\ dec_in.offset_mat # Identity
    /\ dec_in.height_hips = Two
    /\ El(dec_in.encoded_pose, 0) # Zero
    /\ Slice(dec_in.encoded_pose, 2, 6) \notin {QId, QY180}

\* C10: the spine's decoded root is (v[0] h, v[1] h + h, v[2] h) for its
\* window v and h = height_hips; the other five chains' roots are the chain
\* decoder's result with char_scale = h, nothing added; every chain's
\* effector is scaled by that chain's own length.
C10_ChainPostProcess ==
    Decoded =>
        \A c \in Chains :
            LET v == ChainWindow(dec_in.encoded_pose, c)
                h == dec_in.height_hips
            IN  /\ c = "spine" =>
                      dec_out.ik_Spine_root
                          = <<RMul(v[1], h), RAdd(RMul(v[2], h), h), RMul(v[3], h)>>
                /\ c # "spine" =>
                      OutputsOf(dec_out, c)[1] = encoded2IK(v, h, LengthOf(dec_in, c))[1]
                /\ OutputsOf(dec_out, c)[2]
                      = [i \in 1..3 |-> RMul(v[i + 3], LengthOf(dec_in, c))]

C10_Witness ==
    /\ Decoded
    /\ dec_in.height_hips = Two
    /\ dec_in.length_spine # dec_in.length_neck
    /\ dec_out.ik_Spine_root[2] # RMul(El(dec_in.encoded_pose, 7), Two)
    /\ dec_out.ik_Neck_eff # ZeroVec

\* C12: in every encoded pose the Neck block's root (indices 19..21) is
\* (0, 0, 0); the Spine block's root x and z (indices 6 and 8) are 0 and its
\* y (index 7) is (mat_hips.ty - height_hips) / height_hips; each leg root
\* is the leg joint's offset from the hips translation, and each arm root
\* the shoulder's offset from the neck translation, expressed in the axes of
\* g_mat (so that root * g_mat's axes gives the offset back) and of length
\* |offset| / height_hips.
C12_RootFields ==
    EncodedOnly =>
        LET h == enc_in.height_hips
            Off(c, base) ==
                LET root   == Slice(ChainWindow(result, c), 0, 3)
                    offset == VSub(MMat2Trans(ChainJoints(enc_in, c)[1]), MMat2Trans(base))
                IN  /\ VecMulMat(root, enc_loc.g_mat) = offset
                    /\ RMul(Dot(root, root), RMul(h, h)) = Dot(offset, offset)
        IN  /\ Slice(result, 19, 22) = ZeroVec
            /\ El(result, 6) = Zero /\ El(result, 8) = Zero
            /\ El(result, 7) = RDiv(RSub(El(enc_in.mat_hips, 13), h), h)
            /\ Off("leg_L", enc_in.mat_hips) /\ Off("leg_R", enc_in.mat_hips)
            /\ Off("arm_L", enc_in.mat_neck) /\ Off("arm_R", enc_in.mat_neck)

C12_Witness ==
    /\ EncodedOnly
    /\ enc_in.height_hips = Two
    /\ MMat2Trans(enc_in.mat_neck) \notin {ZeroVec, MMat2Trans(enc_in.mat_hips)}
    /\ El(enc_in.mat_hips, 12) # Zero
    /\ El(result, 7) # Zero
    /\ \A c \in {"leg_L", "leg_R", "arm_L", "arm_R"} :
          Slice(ChainWindow(result, c), 0, 3) # ZeroVec

(***************************************************************************)
(* The nodes evaluated frame after frame: the host changes the encoder's   *)
(* inputs, the result is packed again and the decoder reads it again.      *)
(***************************************************************************)
MaxFrames == 2

\* two characters animated in turn
FrameCharacters ==
    {Skeleton("bent", Joint(QId, Vec(0, 0, 0))) @@ Scalars(1, <<1, 1, 1, 1, 1, 1>>),
     Skeleton("straight", Joint(QYaw, Vec(3, 0, -2))) @@ Scalars(2, <<2, 3, 4, 5, 6, 7>>)}

\* the host changes the encode node's inputs: attributeAffects marks the
\* result dirty
NextFrame ==
    /\ ~enc_dirty
    /\ frame < MaxFrames
    /\ \E in \in FrameCharacters \ {enc_in} : enc_in' = in
    /\ enc_dirty' = TRUE
    /\ frame' = frame + 1
    /\ UNCHANGED <<enc_loc, result, dec_in, dec_pc, dec_out, dec_error, host_normal>>

\* the decode node, connected to the result, reads the newly packed pose:
\* attributeAffects marks its outputs dirty
PullPose ==
    /\ ~enc_dirty
    /\ dec_pc = "clean"
    /\ dec_in.encoded_pose # result
    /\ dec_in' = [dec_in EXCEPT !.encoded_pose = result]
    /\ dec_pc' = "dirty"
    /\ UNCHANGED <<enc_in, enc_dirty, enc_loc, result, dec_out, dec_error, host_normal, frame>>

InitFrames == Init /\ enc_in \in FrameCharacters

NextFrames == EncodeCompute \/ NextFrame \/ SetEncodedPose \/ PullPose \/ DecodeCompute

SpecFrames == InitFrames /\ [][NextFrames]_vars

\* the frame a chain is encoded against
ChainFrame(c) ==
    CASE c = "spine" -> "g_mat"
      [] c \in {"leg_L", "leg_R"} -> "lower_body_mat"
      [] c \in {"arm_L", "arm_R", "neck"} -> "upper_body_mat"

\* lower_body_mat / upper_body_mat: a copy of g_mat with the translation of
\* the hips / the neck; g_mat itself is left as it is
BuildFrame(loc, in, f) ==
    IF f = "g_mat" THEN loc
    ELSE [loc EXCEPT ![f] = SetTrans(loc.g_mat,
                                     MMat2Trans(IF f = "lower_body_mat" THEN in.mat_hips
                                                ELSE in.mat_neck))]

\* one chain's statements of compute, run on the locals loc
EncodeChain(loc, in, c, undef) ==
    Only({ [l EXCEPT ![c] = FK2encoded(l[ChainFrame(c)], ChainJoints(in, c)[1],
                                       ChainJoints(in, c)[2], ChainJoints(in, c)[3],
                                       LengthOf(in, c), undef)] :
           l \in {BuildFrame(loc, in, ChainFrame(c))} })

\* the locals of compute once g_mat is built, no chain encoded yet
LocalsAtChains(in, undef) ==
    [n \in Chains \cup {"lower_body_mat", "upper_body_mat"} |-> "unset"] @@
    [g_mat |-> GlobalFrame(in.mat_hips_rest, in.mat_hips, in.height_hips, undef)]

\* the chains' statements of compute run in the given order
RECURSIVE EncodeInOrder(_, _, _, _)
EncodeInOrder(loc, in, order, undef) ==
    IF order = <<>> THEN loc
    ELSE EncodeInOrder(EncodeChain(loc, in, Head(order), undef), in, Tail(order), undef)

\* the order of the source, its reverse, and a shuffle
Orders ==
    {<<"spine", "leg_L", "leg_R", "arm_L", "arm_R", "neck">>,
     <<"neck", "arm_R", "arm_L", "leg_R", "leg_L", "spine">>,
     <<"leg_R", "neck", "spine", "arm_L", "leg_L", "arm_R">>}

\* the encode node has computed and the decode node has not read the result
JustEncoded == ~enc_dirty /\ dec_in.encoded_pose # result

\* C11: over every interleaving of encode and decode computes for two
\* characters taking turns, the packed result is the encoding of the encode
\* node's current inputs alone and the decoded outputs and error are those
\* of the decode node's current inputs alone (whatever an earlier call left
\* behind), so the same inputs give the same outputs again; and within one
\* encode the chains' results and g_mat are the same in whatever order the
\* six chains are encoded.
C11_Stateless ==
    /\ ~enc_dirty => result = PackPose(EncodeLocals(enc_in, host_normal))
    /\ dec_pc = "clean" => <<dec_out, dec_error>> = DecodeOutcome(dec_in, DefaultOutputs)
    /\ JustEncoded =>
          \A order \in Orders :
              LET l == EncodeInOrder(LocalsAtChains(enc_in, host_normal), enc_in, order,
                                     host_normal)
              IN  l.g_mat = enc_loc.g_mat /\ \A c \in Chains : l[c] = enc_loc[c]

\* a character is encoded and decoded again after another one was
C11_Witness ==
    /\ frame = MaxFrames
    /\ ~enc_dirty
    /\ Decoded
    /\ dec_in.encoded_pose = result
    /\ Len(result) = 84

====
